---- MODULE Spec2Model ----
(***************************************************************************)
(* gdpr-mcp: the chunker (internal/ingest), the document store and its     *)
(* lexical / vector / hybrid search (internal/db) and the search tool of   *)
(* the MCP server (internal/server).                                       *)
(*                                                                         *)
(* A text is a sequence of one-character strings.  A score is an exact     *)
(* fraction <<numerator, denominator>> with a positive denominator.        *)
(***************************************************************************)
EXTENDS Integers, Sequences, FiniteSets, Bags, TLC

\* ------------------------------------------------------------------ bounds
\* Longest input text of the chunker, in code points.
MaxLen == 6
\* Largest configured ChunkSize / ChunkOverlap the chunker is run with.
MaxSize == 5
MaxOverlap == 3
\* The loop of chunkText is followed for at most this many iterations (a run
\* that never ends cuts windows for ever).
MaxWindows == 5
\* The ChunkSize IngestText is run with.
IngestSize == 4
\* The dimension of a stub embedding (embeddingDim, 384 in the code).
StubDim == 3
\* Most rows the table documents holds.
MaxDocs == 3

\* ------------------------------------------------------------ text helpers
Min(a, b) == IF a < b THEN a ELSE b
Max(a, b) == IF a > b THEN a ELSE b
SetMax(S) == CHOOSE x \in S : \A y \in S : y <= x

\* The characters the model's texts are written in: letters, the sentence
\* terminator, and the white space strings.TrimSpace strips.
WhiteSpace == {" ", "\n", "\r"}
ChunkAlphabet == {"a", ".", " ", "\n", "\r"}

IsSpace(c) == c \in WhiteSpace

RECURSIVE TrimLeft(_)
TrimLeft(s) ==
    IF s = <<>> THEN <<>>
    ELSE IF IsSpace(Head(s)) THEN TrimLeft(Tail(s)) ELSE s

RECURSIVE TrimRight(_)
TrimRight(s) ==
    IF s = <<>> THEN <<>>
    ELSE IF IsSpace(s[Len(s)]) THEN TrimRight(SubSeq(s, 1, Len(s) - 1)) ELSE s

\* strings.TrimSpace
TrimSpace(s) == TrimRight(TrimLeft(s))

\* strings.ReplaceAll(text, "\r\n", "\n")
RECURSIVE ReplaceCRLF(_)
ReplaceCRLF(s) ==
    IF Len(s) < 2 THEN s
    ELSE IF s[1] = "\r" /\ s[2] = "\n"
         THEN <<"\n">> \o ReplaceCRLF(SubSeq(s, 3, Len(s)))
         ELSE <<s[1]>> \o ReplaceCRLF(Tail(s))

\* All texts over alphabet A of length at most n.
TextsUpTo(A, n) == UNION {[1..k -> A] : k \in 0..n}

\* ---------------------------------------------------------------- chunker
\* Line 112 without line 113: the line endings are left as they are.
TrimOnly(t) == TrimSpace(t)

\* chunkText, lines 111-117: trim first, then normalise the line endings.
Normalize(t) == ReplaceCRLF(TrimSpace(t))

\* Lines 135-140: the sentence boundary search.  i runs from end down to
\* start + chunkSize/2 + 1 over the 0-based runes; runes[i] is rs[i + 1].
SentenceEnd(rs, st, end, size) ==
    LET hits == {i \in (st + (size \div 2) + 1)..end : rs[i + 1] \in {".", "\n"}}
    IN  IF hits = {} THEN end ELSE SetMax(hits) + 1

\* Lines 142-149: the word boundary search, entered only when end still is
\* start + chunkSize.
WordEnd(rs, st, end, size) ==
    LET hits == {i \in (st + (size \div 2) + 1)..end : rs[i + 1] = " "}
    IN  IF hits = {} THEN end ELSE SetMax(hits)

\* Lines 127-150: where the window that starts at st ends.
WindowEnd(rs, st, size) ==
    LET n   == Len(rs)
        raw == Min(st + size, n)
    IN  IF raw < n
        THEN LET e1 == SentenceEnd(rs, st, raw, size)
             IN  IF e1 = st + size /\ e1 < n
                 THEN WordEnd(rs, st, e1, size)
                 ELSE e1
        ELSE raw

\* Line 152: the piece cut from the window [st, end).
Piece(rs, st, end) == TrimSpace(SubSeq(rs, st + 1, end))

\* Line 153: a piece is appended only when it is not empty.
KeptAlways(chunk) == TRUE
Kept(chunk) == Len(chunk) > 0

\* Lines 158-161: the next window's start.
NextStartGap(end, overlap) == Max(end + 1 - overlap, 0)
NextStart(end, overlap) == Max(end - overlap, 0)

\* chunkText as a function, for its callers: the loop of lines 126-166 run
\* from start st with the chunks acc, for at most fuel iterations.  done
\* tells whether the loop ended.
RECURSIVE ChunkLoop(_, _, _, _, _)
ChunkLoop(rs, st, cfg, acc, fuel) ==
    IF st >= Len(rs) THEN [done |-> TRUE, chunks |-> acc]
    ELSE IF fuel = 0 THEN [done |-> FALSE, chunks |-> acc]
    ELSE LET end   == WindowEnd(rs, st, cfg.ChunkSize)
             chunk == Piece(rs, st, end)
             acc2  == IF Kept(chunk) THEN Append(acc, chunk) ELSE acc
         IN  IF end >= Len(rs)
             THEN [done |-> TRUE, chunks |-> acc2]
             ELSE ChunkLoop(rs, NextStart(end, cfg.ChunkOverlap), cfg, acc2, fuel - 1)

chunkText(t, cfg) ==
    LET rs == Normalize(t)
    IN  IF Len(rs) = 0 THEN [done |-> TRUE, chunks |-> <<>>]
        ELSE ChunkLoop(rs, 0, cfg, <<>>, MaxWindows)

\* --------------------------------------------------------------- trigrams
\* strings.ToLower on the model's characters.
Lower(c) ==
    CASE c = "A" -> "a"
      [] c = "U+00C9" -> "U+00E9"
      [] c = "B" -> "b"
      [] c = "C" -> "c"
      [] c = "D" -> "d"
      [] OTHER -> c

ToLower(s) == [i \in 1..Len(s) |-> Lower(s[i])]

\* The bytes of a character in UTF-8: the model's characters are ASCII but
\* for the two accented letters, named by their code points.
Width(c) == IF c \in {"U+00C9", "U+00E9"} THEN 2 ELSE 1

\* len(s) of a string: its bytes.
RECURSIVE ByteLen(_)
ByteLen(s) == IF s = <<>> THEN 0 ELSE Width(Head(s)) + ByteLen(Tail(s))

Range(s) == {s[i] : i \in 1..Len(s)}

\* The loop of lines 856-863 without the test of seen.
RECURSIVE TrigramLoopAll(_, _, _)
TrigramLoopAll(rs, i, acc) ==
    IF i > Len(rs) - 2 THEN acc
    ELSE TrigramLoopAll(rs, i + 1, Append(acc, SubSeq(rs, i, i + 2)))

\* GenerateTrigrams, lines 856-863: the windows of three runes from index i
\* on, each kept at its first occurrence.
RECURSIVE TrigramLoop(_, _, _)
TrigramLoop(rs, i, acc) ==
    IF i > Len(rs) - 2 THEN acc
    ELSE LET t == SubSeq(rs, i, i + 2)
         IN  TrigramLoop(rs, i + 1, IF t \in Range(acc) THEN acc ELSE Append(acc, t))

\* GenerateTrigrams.  Line 849 tests len(s), a count of bytes; the loop runs
\* over the runes.
GenerateTrigrams(s) ==
    LET t == TrimSpace(ToLower(s))
    IN  IF ByteLen(t) < 3 THEN <<>> ELSE TrigramLoop(t, 1, <<>>)

\* -------------------------------------------------------------- embeddings
\* An embedding is a sequence of integers.  A slice that may be nil is a
\* record: None is the nil slice, Some(v) the slice v.
None == [some |-> FALSE, v |-> <<>>]
Some(v) == [some |-> TRUE, v |-> v]

\* The code point of a character (int(r)).
Code(c) ==
    CASE c = "a" -> 97
      [] c = "b" -> 98
      [] c = "c" -> 99
      [] c = "d" -> 100
      [] c = "A" -> 65
      [] c = "B" -> 66
      [] c = "C" -> 67
      [] c = "D" -> 68
      [] c = " " -> 32
      [] c = "." -> 46
      [] c = "\n" -> 10
      [] c = "\r" -> 13

RECURSIVE SumCodes(_, _, _)
SumCodes(s, i, k) ==
    IF i > Len(s) THEN 0
    ELSE (IF (Code(s[i]) + (i - 1)) % StubDim = k THEN Code(s[i]) ELSE 0)
         + SumCodes(s, i + 1, k)

\* stubEmbedding: component (int(r) + i) % embeddingDim collects r for the
\* rune r at byte i of the lower-cased text.  The model keeps the vector as
\* integers: the factor 1/1000 and the factor 1/norm of lines 252-262 scale
\* every component by the same positive number.
stubEmbedding(t) ==
    LET lt == ToLower(t)
    IN  [k \in 1..StubDim |-> SumCodes(lt, 1, k - 1)]

RECURSIVE Dot(_, _)
Dot(a, b) ==
    IF a = <<>> THEN 0 ELSE a[1] * b[1] + Dot(Tail(a), Tail(b))

\* Lines 892-903 without the test of the norms at lines 899-901.
cosineSimilarityUnguarded(a, b) ==
    IF Len(a) # Len(b) \/ Len(a) = 0 THEN [d |-> 0, n |-> 1, m |-> 1]
    ELSE [d |-> Dot(a, b), n |-> Dot(b, b), m |-> Dot(a, a)]

\* cosineSimilarity(a, b) as an exact value: the cosine is
\* d / (sqrt(m) * sqrt(n)), m the squared norm of a and n that of b; the
\* guards of lines 888-901 return 0 before anything is divided.
CosineZero == [d |-> 0, n |-> 1, m |-> 1]
cosineSimilarity(a, b) ==
    IF Len(a) # Len(b) \/ Len(a) = 0 THEN CosineZero
    ELSE IF Dot(a, a) = 0 \/ Dot(b, b) = 0 THEN CosineZero
    ELSE [d |-> Dot(a, b), n |-> Dot(b, b), m |-> Dot(a, a)]

\* x > y for two similarities to the same query (x.m = y.m, or one of them
\* is the 0 of a guard).
SignedSquare(d) == IF d >= 0 THEN d * d ELSE 0 - d * d
CosineGreater(x, y) == SignedSquare(x.d) * y.n > SignedSquare(y.d) * x.n

\* ----------------------------------------------------------------- scores
\* Fractions <<n, d>>, d > 0.
FracAdd(x, y) == <<x[1] * y[2] + y[1] * x[2], x[2] * y[2]>>
FracLess(x, y) == x[1] * y[2] < y[1] * x[2]
FracGreater(x, y) == x[1] * y[2] > y[1] * x[2]

\* The orders of the finite set S: the sequences that hold each element once.
Orders(S) ==
    {f \in [1..Cardinality(S) -> S] : \A i, j \in DOMAIN f : i # j => f[i] # f[j]}

\* s[:n] for 0 <= n.
Prefix(s, n) == SubSeq(s, 1, Min(n, Len(s)))

VARIABLES
    config,     \* the configuration of the Ingester / the Server
    text,       \* chunkText's argument
    runes,      \* the normalised text
    start,      \* the loop variable
    chunks,     \* the chunks appended so far
    windows,    \* history: the windows cut so far, with the chunk each gave
    cpc,        \* chunkText's position: "entry", "loop", "done"
    documents,  \* table documents: row id -> [chunk, chunk_index]; the ids
                \* are 1..Len(documents) (AUTOINCREMENT, no row is deleted)
    trigrams,   \* table trigrams: the bag of rows <<trigram, doc_id>>
    embeddings, \* table embeddings: doc_id -> vector (doc_id is the key)
    metadata,   \* table metadata: key -> value (key is the key)
    ingestRet,  \* what the last IngestText call did and returned
    call,       \* the last call of a search of the store: operation, arguments
    trigramResults, \* what SearchTrigrams returned in that call
    vectorResults,  \* what SearchVectors returned in that call
    results,    \* what HybridSearch returned in that call
    rerun,      \* what the same call returned when it was repeated
    response,   \* the line the search tool wrote to standard output
    eval,       \* the last call of a function looked at on its own: its name,
                \* its arguments, whether it has returned, what it returned
    lastSet,    \* history: key -> the value of the last SetMetadata that
                \* succeeded for the key
    stdin,      \* the lines standard input still holds, in order
    stdout,     \* the lines written to standard output, in order
    req,        \* the request Run parsed and is about to dispatch
    handled,    \* history: the lines Run took from standard input, each with
                \* what was done with it
    spc         \* Run's position: "read", "handle", "returned"

chunkVars == <<text, runes, start, chunks, windows, cpc>>
storeVars == <<documents, trigrams, embeddings, metadata>>
searchVars == <<call, trigramResults, vectorResults, results, rerun, response>>
serverVars == <<stdin, stdout, req, handled, spc>>
vars == <<config, chunkVars, storeVars, ingestRet, searchVars, eval, lastSet, serverVars>>

\* failed is history: some IngestText call so far returned an error.
NoIngest == [status |-> "none", first |-> 0, stored |-> 0, chunks |-> <<>>,
             failed |-> FALSE]

\* A []SearchResult: the nil slice, or a slice with its elements.
NilResults == [nil |-> TRUE, list |-> <<>>]
\* What a search returns: an error, or a slice.
\* panic: the call did not return, a slice expression was out of range.
NoResults == [err |-> FALSE, panic |-> FALSE, nil |-> TRUE, list |-> <<>>]
NoCall == [op |-> "none", query |-> <<>>, queryEmbedding |-> None, limit |-> 0,
           asked |-> 0, embedErr |-> FALSE, dbErr |-> "none"]
NoRerun == [done |-> FALSE, ret |-> NilResults]
NoResponse == [written |-> FALSE, isError |-> FALSE, text |-> [kind |-> "none"]]

\* The store right after Open and Migrate.
EmptyStore ==
    /\ documents = <<>>
    /\ trigrams = EmptyBag
    /\ embeddings = <<>>
    /\ metadata = <<>>

\* The chunker's variables while another part of the program is looked at.
ChunkIdle ==
    /\ text = <<>>
    /\ runes = <<>>
    /\ start = 0
    /\ chunks = <<>>
    /\ windows = <<>>
    /\ cpc = "idle"

IngestIdle == ingestRet = NoIngest

\* The history lastSet after a SetMetadata(key, value) that succeeded.
Recorded(h, key, value) ==
    [k \in DOMAIN h \cup {key} |-> IF k = key THEN value ELSE h[k]]

\* The server's variables while another part of the program is looked at.
NoRequest == [kind |-> "none"]
ServerIdle ==
    /\ stdin = <<>>
    /\ stdout = <<>>
    /\ req = NoRequest
    /\ handled = <<>>
    /\ spc = "idle"

NoEval == [fn |-> "none", arg |-> <<>>, done |-> FALSE, ret |-> <<>>]
EvalIdle ==
    /\ eval = NoEval
    /\ lastSet = <<>>

SearchIdle ==
    /\ call = NoCall
    /\ trigramResults = NilResults
    /\ vectorResults = NilResults
    /\ results = NoResults
    /\ rerun = NoRerun
    /\ response = NoResponse

ChunkInit ==
    /\ text \in TextsUpTo(ChunkAlphabet, MaxLen)
    /\ config \in [ChunkSize : 1..MaxSize, ChunkOverlap : 0..MaxOverlap,
                   UseOpenAI : {FALSE}, OpenAIKey : {""}]
    /\ EmptyStore
    /\ IngestIdle
    /\ SearchIdle
    /\ EvalIdle
    /\ ServerIdle
    /\ runes = <<>>
    /\ start = 0
    /\ chunks = <<>>
    /\ windows = <<>>
    /\ cpc = "entry"

\* Lines 111-124: normalise; the empty text returns at once.
ChunkEntry ==
    /\ cpc = "entry"
    /\ runes' = Normalize(text)
    /\ cpc' = IF Len(runes') = 0 THEN "done" ELSE "loop"
    /\ UNCHANGED <<text, config, serverVars, eval, lastSet, start, chunks, windows, storeVars,
                   ingestRet, searchVars>>

\* Lines 126-166: one iteration of the loop.
ChunkIterate ==
    /\ cpc = "loop"
    /\ Len(windows) < MaxWindows
    /\ IF start < Len(runes)
       THEN LET end   == WindowEnd(runes, start, config.ChunkSize)
                chunk == Piece(runes, start, end)
                kept  == Kept(chunk)
            IN  /\ chunks' = IF kept THEN Append(chunks, chunk) ELSE chunks
                /\ windows' = Append(windows,
                                [start |-> start, end |-> end,
                                 chunk |-> IF kept THEN Len(chunks) + 1 ELSE 0])
                /\ start' = NextStart(end, config.ChunkOverlap)
                /\ cpc' = IF end >= Len(runes) THEN "done" ELSE "loop"
       ELSE /\ cpc' = "done"
            /\ UNCHANGED <<chunks, windows, start>>
    /\ UNCHANGED <<text, config, serverVars, eval, lastSet, runes, storeVars, ingestRet, searchVars>>

ChunkNext == ChunkEntry \/ ChunkIterate

SpecChunk == ChunkInit /\ [][ChunkNext]_vars

\* ------------------------------------------------------------- ingestion
\* The texts handed to IngestText.
IngestContents ==
    { <<>>,
      <<" ", "a", "b", "\n">>,
      <<"A", "b", "c", "d", " ", "a", "b">>,
      <<"a", "b", "c", "d", " ", "a", "b", "c">> }

\* What the embedding provider answers for one text: an error (None) or a
\* vector of the provider's own dimension.
ProviderOutcomes == {None, Some(<<1, 2>>)}

\* The configurations IngestText is run with: chunkText ends for each.
IngestConfigs ==
    {c \in [ChunkSize : {IngestSize}, ChunkOverlap : {1},
            UseOpenAI : BOOLEAN, OpenAIKey : {"", "sk"}] :
        c.OpenAIKey = "" => ~c.UseOpenAI}

\* generateEmbedding (lines 172-177) followed by the fallback of IngestText
\* (lines 81-86): the provider's vector, or the stub embedding when the
\* provider is not used or fails.
generateEmbedding(chunk, outcome) ==
    IF config.UseOpenAI /\ config.OpenAIKey # ""
    THEN IF outcome.some THEN outcome.v ELSE stubEmbedding(chunk)
    ELSE stubEmbedding(chunk)

\* INSERT OR IGNORE: the row of a key that is there is kept.
PutIfAbsent(f, key, value) ==
    [k \in DOMAIN f \cup {key} |-> IF k \in DOMAIN f THEN f[k] ELSE value]

\* INSERT OR REPLACE INTO metadata / embeddings: the row of the key is
\* replaced, or added.
Put(f, key, value) ==
    [k \in DOMAIN f \cup {key} |-> IF k = key THEN value ELSE f[k]]

\* InsertTrigrams: one row per trigram handed in, in one transaction.
InsertTrigramsRows(rows, docID, tgs) ==
    rows (+) [r \in {<<tgs[i], docID>> : i \in 1..Len(tgs)} |->
                Cardinality({i \in 1..Len(tgs) : tgs[i] = r[1]})]

\* The places where a call of IngestText on n chunks can fail: a store
\* operation of chunk i, or one of the two metadata writes; step "none" is
\* the call in which nothing fails.
FailPoints(n) ==
    {[i |-> 0, step |-> "none"]}
    \cup [i : 1..n, step : {"InsertChunk", "InsertTrigrams", "InsertEmbedding"}]
    \cup [i : {n + 1}, step : {"ingested_at", "chunk_count"}]

\* The trigram rows of the chunks cs[1..k], stored under the ids base + 1 ..
RECURSIVE TrigramRowsOf(_, _, _, _)
TrigramRowsOf(rows, cs, base, k) ==
    IF k = 0 THEN rows
    ELSE InsertTrigramsRows(TrigramRowsOf(rows, cs, base, k - 1),
                            base + k, GenerateTrigrams(cs[k]))

\* IngestText (lines 61-107).  InsertChunk, InsertTrigrams and
\* InsertEmbedding each commit on their own; an error of one of them returns
\* from IngestText at once, and nothing that was committed is undone.
StoreChunks(cs, fail, provider) ==
    LET n    == Len(cs)
        base == Len(documents)
        inChunk == fail.step \in {"InsertChunk", "InsertTrigrams", "InsertEmbedding"}
        nDocs == IF fail.step = "InsertChunk" THEN fail.i - 1
                 ELSE IF inChunk THEN fail.i ELSE n
        nTri  == IF fail.step \in {"InsertChunk", "InsertTrigrams"} THEN fail.i - 1
                 ELSE IF inChunk THEN fail.i ELSE n
        nEmb  == IF inChunk THEN fail.i - 1 ELSE n
    IN  /\ base + n <= MaxDocs
        /\ documents' = documents \o
              [k \in 1..nDocs |-> [chunk |-> cs[k], chunk_index |-> k - 1]]
        /\ trigrams' = TrigramRowsOf(trigrams, cs, base, nTri)
        /\ embeddings' =
              [d \in DOMAIN embeddings \cup (base + 1)..(base + nEmb) |->
                 IF d > base THEN generateEmbedding(cs[d - base], provider[d - base])
                 ELSE embeddings[d]]
        /\ metadata' =
              IF inChunk \/ fail.step = "ingested_at" THEN metadata
              ELSE IF fail.step = "chunk_count"
                   THEN Put(metadata, "ingested_at", "now")
                   ELSE Put(Put(metadata, "ingested_at", "now"),
                            "chunk_count", ToString(n))
        /\ lastSet' =
              IF inChunk \/ fail.step = "ingested_at" THEN lastSet
              ELSE IF fail.step = "chunk_count"
                   THEN Recorded(lastSet, "ingested_at", "now")
                   ELSE Recorded(Recorded(lastSet, "ingested_at", "now"),
                                 "chunk_count", ToString(n))
        /\ ingestRet' = [status |-> IF fail.step = "none" THEN "ok" ELSE "error",
                         first |-> base, stored |-> nDocs, chunks |-> cs,
                         failed |-> (ingestRet.failed \/ fail.step # "none")]
        /\ UNCHANGED <<config, serverVars, eval, chunkVars, searchVars>>

IngestText(content) ==
    \E r \in {chunkText(content, config)} :
        /\ r.done
        /\ \E fail \in FailPoints(Len(r.chunks)),
              provider \in [1..Len(r.chunks) -> ProviderOutcomes] :
                StoreChunks(r.chunks, fail, provider)

Init ==
    /\ config \in IngestConfigs
    /\ EmptyStore
    /\ ChunkIdle
    /\ IngestIdle
    /\ SearchIdle
    /\ EvalIdle
    /\ ServerIdle

Next ==
    \E content \in IngestContents : IngestText(content)

Spec == Init /\ [][Next]_vars

\* ---------------------------------------------------------------- search
MaxPassages == 2
MaxLimit == 2
MaxCopies == 2
SnippetLen == 200
RRFK == 60
DefaultLimit == 10

\* The passages, the vectors and the queries of the search model.
StoreTexts == { <<"a", "b", "c", "d">>, <<"A", "b", "c">> }
StoreVectors == { <<2, 1>>, <<1, 0, 0>> }
Queries == { <<"a", "B", "c", "d">>, <<"b", "c", "d", " ">>, <<" ", "a", "b">> }
ProviderVector == <<1, 2>>

\* The server's configurations: the provider switched off, and switched on.
ServerConfigs ==
    { [UseOpenAI |-> FALSE, OpenAIKey |-> ""],
      [UseOpenAI |-> TRUE, OpenAIKey |-> "sk"] }

\* var results []SearchResult followed by one append per row.
Appended(l) == IF l = <<>> THEN NilResults ELSE [nil |-> FALSE, list |-> l]

\* if len(r) > n { r = r[:n] }
TruncateNever(r, n) == r
Truncate(r, n) ==
    IF Len(r.list) > n THEN [nil |-> r.nil, list |-> SubSeq(r.list, 1, n)] ELSE r

\* Lines 668-672: the first 200 bytes of the chunk, and "..." when cut.
Snippet(chunk) ==
    IF Len(chunk) > SnippetLen
    THEN SubSeq(chunk, 1, SnippetLen) \o <<".", ".", ".">>
    ELSE chunk

\* The rows of documents JOIN trigrams for document d with the trigram IN Q.
JoinRows(d, Q) == {r \in BagToSet(trigrams) : r[2] = d /\ r[1] \in Range(Q)}

\* COUNT(*) over those rows, and COUNT(DISTINCT t.trigram), line 637.
MatchCountRows(d, Q) ==
    BagCardinality([r \in JoinRows(d, Q) |-> CopiesIn(r, trigrams)])
MatchCount(d, Q) == Cardinality({r[1] : r \in JoinRows(d, Q)})

\* LIMIT ?: a negative limit is no limit.
SqlLimit(s, n) == IF n < 0 THEN s ELSE Prefix(s, n)

\* GROUP BY d.id ORDER BY match_count DESC: the groups in an order of
\* non-increasing match_count.  The statement names no second key, so each
\* such order is an answer of the database.
LexicalOrders(Q) ==
    LET groups == {d \in 1..Len(documents) : JoinRows(d, Q) # {}}
    IN  {o \in Orders(groups) :
            \A i \in 1..(Len(o) - 1) : MatchCount(o[i], Q) >= MatchCount(o[i + 1], Q)}

\* SearchTrigrams (lines 621-682): the slices a call can return.
SearchTrigrams(query, limit) ==
    LET Q == GenerateTrigrams(ToLower(query))
    IN  IF Len(Q) = 0 THEN {NilResults}
        ELSE {Appended([i \in 1..Len(SqlLimit(o, limit)) |->
                          [ID |-> o[i],
                           Score |-> <<MatchCount(o[i], Q), Len(Q)>>,
                           Snippet |-> Snippet(documents[o[i]].chunk)]]) :
                o \in LexicalOrders(Q)}

\* SearchVectors (lines 685-751): every row of embeddings is scored, the
\* rows are sorted by score, descending, by a sort that is not stable, and
\* cut to limit.
VectorOrders(queryEmbedding) ==
    {o \in Orders(DOMAIN embeddings) :
        \A i \in 1..(Len(o) - 1) :
            ~CosineGreater(cosineSimilarity(queryEmbedding, embeddings[o[i + 1]]),
                           cosineSimilarity(queryEmbedding, embeddings[o[i]]))}

SearchVectors(queryEmbedding, limit) ==
    {[nil |-> FALSE,
      list |-> [i \in 1..Min(limit, Len(o)) |->
                  [ID |-> o[i],
                   Score |-> cosineSimilarity(queryEmbedding, embeddings[o[i]]),
                   Snippet |-> Snippet(documents[o[i]].chunk)]]] :
        o \in VectorOrders(queryEmbedding)}

\* Lines 781-791: 1.0 / (k + float64(i+1)) for the element at index i, whose
\* 1-based position is pos.
RankWeightZeroBased(pos) == <<1, RRFK + pos - 1>>
RankWeight(pos) == <<1, RRFK + pos>>

\* scores[r.ID] += weight, for the elements of list from position pos on.
RECURSIVE AddRanks(_, _, _)
AddRanks(scores, list, pos) ==
    IF pos > Len(list) THEN scores
    ELSE LET id  == list[pos].ID
             old == IF id \in DOMAIN scores THEN scores[id] ELSE <<0, 1>>
         IN  AddRanks(Put(scores, id, FracAdd(old, RankWeight(pos))), list, pos + 1)

\* snippets[r.ID]: the snippet of the lexical list, else of the vector list.
FusedSnippet(id, tri, vec) ==
    IF \E i \in 1..Len(tri) : tri[i].ID = id
    THEN (CHOOSE r \in Range(tri) : r.ID = id).Snippet
    ELSE (CHOOSE r \in Range(vec) : r.ID = id).Snippet

\* Lines 775-819: the map of scores is built from the two lists, its entries
\* are collected in the order the map yields them, sorted by score,
\* descending, by a sort that is not stable, and cut to limit.
Fuse(tri, vec, limit) ==
    LET scores == AddRanks(AddRanks(<<>>, tri, 1), vec, 1)
        sorted == {o \in Orders(DOMAIN scores) :
                     \A i \in 1..(Len(o) - 1) :
                        ~FracGreater(scores[o[i + 1]], scores[o[i]])}
    IN  {[nil |-> FALSE,
          list |-> [i \in 1..Min(limit, Len(o)) |->
                      [ID |-> o[i], Score |-> scores[o[i]],
                       Snippet |-> FusedSnippet(o[i], tri, vec)]]] :
            o \in sorted}

Failed == [err |-> TRUE, panic |-> FALSE, nil |-> TRUE, list |-> <<>>]
Panicked == [err |-> FALSE, panic |-> TRUE, nil |-> TRUE, list |-> <<>>]
Returned(r) == [err |-> FALSE, panic |-> FALSE, nil |-> r.nil, list |-> r.list]

\* if len(s) > n { s = s[:n] } panics when n is negative: the test holds for
\* every length and the slice bound is out of range.
SlicePanics(len, n) == len > n /\ n < 0

\* The statement of SearchTrigrams failing whatever the query is.
TrigramsFailAlways(query, dbErr) == dbErr = "SearchTrigrams"

\* The statement of SearchTrigrams is run, and can fail, only for a query
\* with trigrams (lines 622-625 return before it).
TrigramsFail(query, dbErr) ==
    dbErr = "SearchTrigrams" /\ Len(GenerateTrigrams(ToLower(query))) > 0

\* HybridSearch (lines 754-820): what a call can do, as the lists of its two
\* searches and what it returns.  dbErr names the search whose statement
\* the database fails, if any.  SearchVectors cuts its list to limit * 2 at
\* lines 732-734, Fuse is reached with limit >= 0 only.
HybridSearch(query, queryEmbedding, limit, dbErr) ==
    IF TrigramsFail(query, dbErr)
    THEN {[tri |-> NilResults, vec |-> NilResults, res |-> Failed]}
    ELSE IF ~queryEmbedding.some
    THEN {[tri |-> t, vec |-> NilResults,
           res |-> IF SlicePanics(Len(t.list), limit) THEN Panicked
                   ELSE Returned(Truncate(t, limit))] :
            t \in SearchTrigrams(query, limit * 2)}
    ELSE IF dbErr = "SearchVectors"
    THEN {[tri |-> t, vec |-> NilResults, res |-> Failed] :
            t \in SearchTrigrams(query, limit * 2)}
    ELSE IF SlicePanics(Cardinality(DOMAIN embeddings), limit * 2)
    THEN {[tri |-> t, vec |-> NilResults, res |-> Panicked] :
            t \in SearchTrigrams(query, limit * 2)}
    ELSE UNION UNION
           {{{[tri |-> t, vec |-> v, res |-> Returned(r)] :
                 r \in Fuse(t.list, v.list, limit)} :
               v \in SearchVectors(queryEmbedding.v, limit * 2)} :
             t \in SearchTrigrams(query, limit * 2)}

\* The searches a call with this query vector runs, so the ones that can fail.
DbErrs(queryEmbedding) ==
    {"none", "SearchTrigrams"}
    \cup (IF queryEmbedding.some THEN {"SearchVectors"} ELSE {})

\* json.Marshal of a []SearchResult: null for the nil slice, else the array
\* of the objects with the keys of the struct tags (lines 518-522).
Marshal(r) ==
    IF r.nil THEN [kind |-> "null"]
    ELSE [kind |-> "array",
          items |-> [i \in 1..Len(r.list) |->
                       [id |-> r.list[i].ID, score |-> r.list[i].Score,
                        snippet |-> r.list[i].Snippet]]]

\* writeToolResult and writeToolError (server.go, lines 369-386).
writeToolResult(body) == [written |-> TRUE, isError |-> FALSE, text |-> body]
writeToolError(message) ==
    [written |-> TRUE, isError |-> TRUE,
     text |-> [kind |-> "message", message |-> message]]

\* server.go, lines 264-279: the query vector handed to HybridSearch.  The
\* provider answers with a vector, or fails and leaves the slice nil.
QueryEmbeddingStubFallback(query, provider) ==
    IF config.UseOpenAI /\ config.OpenAIKey # "" /\ provider.some
    THEN provider
    ELSE Some(stubEmbedding(query))
QueryEmbedding(query, provider) ==
    IF config.UseOpenAI /\ config.OpenAIKey # ""
    THEN provider
    ELSE Some(stubEmbedding(query))

\* The history of the last search is kept for the store it ran on: a write
\* to the store clears it.
SearchReset ==
    /\ call' = NoCall
    /\ trigramResults' = NilResults
    /\ vectorResults' = NilResults
    /\ results' = NoResults
    /\ rerun' = NoRerun
    /\ response' = NoResponse
    /\ eval' = NoEval

\* InsertChunk (lines 555-564).
InsertChunk(chunk, chunkIndex) ==
    /\ Len(documents) < MaxPassages
    /\ documents' = Append(documents, [chunk |-> chunk, chunk_index |-> chunkIndex])
    /\ SearchReset
    /\ UNCHANGED <<config, serverVars, lastSet, chunkVars, trigrams, embeddings, metadata, ingestRet>>

\* InsertTrigrams (lines 567-587) for the trigrams of the document's chunk.
InsertTrigrams(docID) ==
    LET tgs == GenerateTrigrams(documents[docID].chunk)
    IN  /\ \A i \in 1..Len(tgs) : CopiesIn(<<tgs[i], docID>>, trigrams) < MaxCopies
        /\ trigrams' = InsertTrigramsRows(trigrams, docID, tgs)
        /\ SearchReset
        /\ UNCHANGED <<config, serverVars, lastSet, chunkVars, documents, embeddings, metadata, ingestRet>>

\* InsertEmbedding (lines 590-600).
InsertEmbedding(docID, embedding) ==
    /\ embeddings' = Put(embeddings, docID, embedding)
    /\ SearchReset
    /\ UNCHANGED <<config, serverVars, lastSet, chunkVars, documents, trigrams, metadata, ingestRet>>

\* The history holds one call: a call is made when the previous one has been
\* left behind (NextRequest).  The calls read the store only, so a call finds
\* the same whatever was called before it.
Ready == call = NoCall /\ response = NoResponse

\* A call of SearchTrigrams; dbErr tells whether the database fails its
\* statement (lines 648-651).
CallSearchTrigrams(query, limit, dbErr) ==
    /\ Ready
    /\ call' = [op |-> "SearchTrigrams", query |-> query, queryEmbedding |-> None,
                limit |-> limit, asked |-> limit, embedErr |-> FALSE, dbErr |-> dbErr]
    /\ IF TrigramsFail(query, dbErr)
       THEN /\ trigramResults' = NilResults
            /\ results' = Failed
       ELSE /\ trigramResults' \in SearchTrigrams(query, limit)
            /\ results' = Returned(trigramResults')
    /\ vectorResults' = NilResults
    /\ rerun' = NoRerun
    /\ response' = NoResponse
    /\ UNCHANGED <<config, serverVars, eval, lastSet, chunkVars, storeVars, ingestRet>>

\* The same call of SearchTrigrams, made once more on the same store.
RepeatSearchTrigrams ==
    /\ call.op = "SearchTrigrams"
    /\ ~results.err
    /\ ~rerun.done
    /\ \E r \in SearchTrigrams(call.query, call.limit) :
          rerun' = [done |-> TRUE, ret |-> r]
    /\ UNCHANGED <<config, serverVars, eval, lastSet, chunkVars, storeVars, ingestRet, call, trigramResults,
                   vectorResults, results, response>>

\* A call of HybridSearch.
CallHybridSearch(query, queryEmbedding, limit, dbErr) ==
    /\ Ready
    /\ call' = [op |-> "HybridSearch", query |-> query,
                queryEmbedding |-> queryEmbedding, limit |-> limit,
                asked |-> limit, embedErr |-> FALSE, dbErr |-> dbErr]
    /\ \E h \in HybridSearch(query, queryEmbedding, limit, dbErr) :
          /\ trigramResults' = h.tri
          /\ vectorResults' = h.vec
          /\ results' = h.res
    /\ rerun' = NoRerun
    /\ response' = NoResponse
    /\ UNCHANGED <<config, serverVars, eval, lastSet, chunkVars, storeVars, ingestRet>>

\* The same call of HybridSearch, made once more on the same store.
RepeatHybridSearch ==
    /\ call.op = "HybridSearch"
    /\ ~results.err
    /\ ~results.panic
    /\ ~rerun.done
    /\ \E h \in HybridSearch(call.query, call.queryEmbedding, call.limit, call.dbErr) :
          rerun' = [done |-> TRUE, ret |-> [nil |-> h.res.nil, list |-> h.res.list]]
    /\ UNCHANGED <<config, serverVars, eval, lastSet, chunkVars, storeVars, ingestRet, call, trigramResults,
                   vectorResults, results, response>>

\* handleSearchTool (server.go, lines 244-294) for the arguments args: ok
\* tells whether json.Unmarshal accepts them.  The scores of the model are
\* finite, so json.Marshal of the results does not fail.
handleSearchTool(args, provider, dbErr) ==
    /\ Ready
    /\ rerun' = NoRerun
    /\ UNCHANGED <<config, serverVars, eval, lastSet, chunkVars, storeVars, ingestRet>>
    /\ IF ~args.ok \/ args.query = <<>>
       THEN /\ dbErr = "none"
            /\ call' = NoCall
            /\ trigramResults' = NilResults
            /\ vectorResults' = NilResults
            /\ results' = NoResults
            /\ response' = IF ~args.ok THEN writeToolError("Invalid arguments")
                           ELSE writeToolError("Query is required")
       ELSE LET limit == IF args.limit <= 0 THEN DefaultLimit ELSE args.limit
                queryEmbedding == QueryEmbedding(args.query, provider)
            IN  /\ dbErr \in DbErrs(queryEmbedding)
                /\ call' = [op |-> "HybridSearch", query |-> args.query,
                            queryEmbedding |-> queryEmbedding, limit |-> limit,
                            asked |-> args.limit,
                            embedErr |-> (/\ config.UseOpenAI
                                          /\ config.OpenAIKey # ""
                                          /\ ~provider.some),
                            dbErr |-> dbErr]
                /\ \E h \in HybridSearch(args.query, queryEmbedding, limit, dbErr) :
                      /\ trigramResults' = h.tri
                      /\ vectorResults' = h.vec
                      /\ results' = h.res
                      /\ response' = IF h.res.err THEN writeToolError("Search failed")
                                     ELSE writeToolResult(Marshal(h.res))

\* The caller goes on after the call returned: the loop of Run (server.go,
\* lines 116-147) is back at ReadBytes.  A call that panicked ended the
\* process.
NextRequest ==
    /\ ~Ready
    /\ ~results.panic
    /\ SearchReset
    /\ UNCHANGED <<config, serverVars, lastSet, chunkVars, storeVars, ingestRet>>

\* A *Document: nil, or the row of documents with the id.
NoDocument == [nil |-> TRUE]
DocumentOf(id) ==
    [nil |-> FALSE, ID |-> id, Chunk |-> documents[id].chunk,
     ChunkIndex |-> documents[id].chunk_index]

\* GetDocument with sql.ErrNoRows handled as every other error.
GetDocumentNoRowsIsError(id, dbErr) ==
    IF dbErr = "GetDocument" \/ id \notin 1..Len(documents)
    THEN [doc |-> NoDocument, err |-> TRUE]
    ELSE [doc |-> DocumentOf(id), err |-> FALSE]

\* GetDocument (lines 603-618): no row gives nil, nil; another error of the
\* query is returned.
GetDocument(id, dbErr) ==
    IF dbErr = "GetDocument" THEN [doc |-> NoDocument, err |-> TRUE]
    ELSE IF id \notin 1..Len(documents) THEN [doc |-> NoDocument, err |-> FALSE]
    ELSE [doc |-> DocumentOf(id), err |-> FALSE]

\* A call of GetDocument.
CallGetDocument(id, dbErr) ==
    /\ Ready
    /\ call' = [NoCall EXCEPT !.op = "GetDocument", !.dbErr = dbErr]
    /\ eval' = [fn |-> "GetDocument", arg |-> id, done |-> TRUE,
                ret |-> GetDocument(id, dbErr)]
    /\ UNCHANGED <<config, serverVars, lastSet, chunkVars, storeVars, ingestRet, trigramResults,
                   vectorResults, results, rerun, response>>

\* handleGetTool (server.go, lines 296-335) for the arguments args: ok tells
\* whether json.Unmarshal accepts them, and an object without id has id 0.
\* eval.ret is what GetDocument returned, when the handler called it.
handleGetTool(args, dbErr) ==
    /\ Ready
    /\ call' = [NoCall EXCEPT !.op = "gdpr_get", !.dbErr = dbErr]
    /\ UNCHANGED <<config, serverVars, lastSet, chunkVars, storeVars, ingestRet, trigramResults,
                   vectorResults, results, rerun>>
    /\ IF ~args.ok \/ args.id <= 0
       THEN /\ dbErr = "none"
            /\ eval' = [fn |-> "handleGetTool", arg |-> args, done |-> TRUE, ret |-> <<>>]
            /\ response' = IF ~args.ok THEN writeToolError("Invalid arguments")
                           ELSE writeToolError("Valid document ID is required")
       ELSE \E r \in {GetDocument(args.id, dbErr)} :
              /\ eval' = [fn |-> "handleGetTool", arg |-> args, done |-> TRUE, ret |-> r]
              /\ response' =
                    IF r.err THEN writeToolError("Failed to get document")
                    ELSE IF r.doc.nil THEN writeToolError("Document not found")
                    ELSE writeToolResult([kind |-> "object", id |-> r.doc.ID,
                                          chunk |-> r.doc.Chunk,
                                          chunk_index |-> r.doc.ChunkIndex])

\* The ids asked for: none of a passage, and each passage's.
GetIds == (0 - 1)..(MaxPassages + 1)

\* The arguments of a gdpr_get request.
GetArgs ==
    {[ok |-> FALSE, id |-> 0]} \cup [ok : {TRUE}, id : GetIds]

\* The arguments of a gdpr_search request.
SearchArgs ==
    {[ok |-> FALSE, query |-> <<>>, limit |-> 0]}
    \cup [ok : {TRUE}, query : Queries \cup {<<>>}, limit : (0 - 1)..MaxLimit]

SearchInit ==
    /\ config \in ServerConfigs
    /\ EmptyStore
    /\ ChunkIdle
    /\ IngestIdle
    /\ SearchIdle
    /\ EvalIdle
    /\ ServerIdle

\* What openAIEmbedding can return to the server's call: nil with an error,
\* or the provider's vector.
ProviderAnswers ==
    IF config.UseOpenAI /\ config.OpenAIKey # ""
    THEN {None, Some(ProviderVector)}
    ELSE {None}

SearchNext ==
    \/ \E chunk \in StoreTexts : InsertChunk(chunk, Len(documents))
    \/ \E docID \in 1..Len(documents) : InsertTrigrams(docID)
    \/ \E docID \in 1..Len(documents), embedding \in StoreVectors :
          InsertEmbedding(docID, embedding)
    \/ \E query \in Queries, limit \in 1..MaxLimit,
          dbErr \in {"none", "SearchTrigrams"} :
          CallSearchTrigrams(query, limit, dbErr)
    \/ RepeatSearchTrigrams
    \/ \E query \in Queries, queryEmbedding \in {None, Some(ProviderVector)},
          limit \in (0 - 1)..MaxLimit :
          \E dbErr \in DbErrs(queryEmbedding) :
             CallHybridSearch(query, queryEmbedding, limit, dbErr)
    \/ RepeatHybridSearch
    \/ NextRequest
    \/ \E id \in GetIds, dbErr \in {"none", "GetDocument"} : CallGetDocument(id, dbErr)
    \/ \E args \in GetArgs, dbErr \in {"none", "GetDocument"} : handleGetTool(args, dbErr)
    \/ \E args \in SearchArgs, provider \in ProviderAnswers :
          \E dbErr \in DbErrs(QueryEmbedding(args.query, provider)) :
             handleSearchTool(args, provider, dbErr)

SpecSearch == SearchInit /\ [][SearchNext]_vars

\* --------------------------------------------------------------- metadata
\* SetMetadata and GetMetadata called in any order on one store.
MetaKeys == {"ingested_at", "chunk_count", "version"}
MetaValues == {"", "1", "2"}

\* SetMetadata (lines 823-829): dbErr tells whether the statement fails, and
\* a statement that fails writes nothing.
SetMetadata(key, value, dbErr) ==
    /\ metadata' = IF dbErr THEN metadata ELSE Put(metadata, key, value)
    /\ lastSet' = IF dbErr THEN lastSet ELSE Recorded(lastSet, key, value)
    /\ eval' = [fn |-> "SetMetadata",
                arg |-> [key |-> key, value |-> value, dbErr |-> dbErr],
                done |-> TRUE, ret |-> [err |-> dbErr]]
    /\ UNCHANGED <<config, serverVars, chunkVars, documents, trigrams, embeddings, ingestRet,
                   searchVars>>

\* GetMetadata (lines 832-842): no row gives "", nil; another error of the
\* query is returned with the value left at "".
GetMetadata(key, dbErr) ==
    /\ eval' = [fn |-> "GetMetadata", arg |-> [key |-> key, dbErr |-> dbErr],
                done |-> TRUE,
                ret |-> IF dbErr THEN [value |-> "", err |-> TRUE]
                        ELSE IF key \notin DOMAIN metadata
                             THEN [value |-> "", err |-> FALSE]
                             ELSE [value |-> metadata[key], err |-> FALSE]]
    /\ UNCHANGED <<config, serverVars, chunkVars, storeVars, ingestRet, searchVars, lastSet>>

MetaInit ==
    /\ config \in {c \in IngestConfigs : c.OpenAIKey = ""}
    /\ EmptyStore
    /\ ChunkIdle
    /\ IngestIdle
    /\ SearchIdle
    /\ EvalIdle
    /\ ServerIdle

MetaNext ==
    \/ \E key \in MetaKeys, value \in MetaValues, dbErr \in BOOLEAN :
          SetMetadata(key, value, dbErr)
    \/ \E key \in MetaKeys, dbErr \in BOOLEAN : GetMetadata(key, dbErr)

SpecMeta == MetaInit /\ [][MetaNext]_vars

\* ----------------------------------------------- functions on their own
\* GenerateTrigrams and cosineSimilarity read no state: each is applied to
\* arguments drawn at the start.
MaxTrigramLen == 5
MaxDim == 2
MaxComponent == 1

TrigramAlphabet == {"a", "A", "U+00E9", "U+00C9", " "}
TrigramInputs == TextsUpTo(TrigramAlphabet, MaxTrigramLen)

Vectors ==
    UNION {[1..n -> (0 - MaxComponent)..MaxComponent] : n \in 0..MaxDim}

\* A float32 is its bit pattern math.Float32bits gives, kept as the two
\* 16-bit halves <<high, low>>; math.Float32frombits is the inverse
\* reinterpretation.  The patterns: 0, -0, 1.5, -2.3, the smallest
\* subnormal, a NaN with a payload, and all bits set.
MaxFloats == 2
Byte == 256
FloatBits ==
    { <<0, 0>>, <<32768, 0>>, <<16320, 0>>, <<49171, 13107>>, <<0, 1>>,
      <<32704, 258>>, <<65535, 65535>> }
FloatVectors == UNION {[1..n -> FloatBits] : n \in 0..MaxFloats}

\* binary.LittleEndian.PutUint32: the four bytes, the lowest first.
PutUint32(bits) ==
    <<bits[2] % Byte, bits[2] \div Byte, bits[1] % Byte, bits[1] \div Byte>>

\* The four bytes read with the highest first (binary.BigEndian.Uint32).
Uint32BigEndian(b) == <<b[1] * Byte + b[2], b[3] * Byte + b[4]>>

\* binary.LittleEndian.Uint32: the lowest byte first.
Uint32(b) == <<b[4] * Byte + b[3], b[2] * Byte + b[1]>>

\* float32SliceToBytes (lines 870-876).
RECURSIVE float32SliceToBytes(_)
float32SliceToBytes(floats) ==
    IF floats = <<>> THEN <<>>
    ELSE PutUint32(Head(floats)) \o float32SliceToBytes(Tail(floats))

\* bytesToFloat32Slice (lines 878-885): len(bytes)/4 values, the value i
\* from the bytes i*4 .. i*4+3.
bytesToFloat32Slice(bytes) ==
    [i \in 1..(Len(bytes) \div 4) |-> Uint32(SubSeq(bytes, 4 * i - 3, 4 * i))]

Pending(fn, arg) == [fn |-> fn, arg |-> arg, done |-> FALSE, ret |-> <<>>]

PureInit ==
    /\ config \in {c \in IngestConfigs : c.OpenAIKey = ""}
    /\ EmptyStore
    /\ ChunkIdle
    /\ IngestIdle
    /\ SearchIdle
    /\ lastSet = <<>>
    /\ ServerIdle
    /\ eval \in {Pending("GenerateTrigrams", s) : s \in TrigramInputs}
               \cup {Pending("cosineSimilarity", <<a, b>>) : a \in Vectors, b \in Vectors}
               \cup {Pending("float32SliceToBytes", v) : v \in FloatVectors}

ApplyGenerateTrigrams ==
    /\ eval.fn = "GenerateTrigrams"
    /\ ~eval.done
    /\ eval' = [eval EXCEPT !.done = TRUE, !.ret = GenerateTrigrams(eval.arg)]
    /\ UNCHANGED <<config, serverVars, chunkVars, storeVars, ingestRet, searchVars, lastSet>>

ApplyCosineSimilarity ==
    /\ eval.fn = "cosineSimilarity"
    /\ ~eval.done
    /\ eval' = [eval EXCEPT !.done = TRUE,
                            !.ret = cosineSimilarity(eval.arg[1], eval.arg[2])]
    /\ UNCHANGED <<config, serverVars, chunkVars, storeVars, ingestRet, searchVars, lastSet>>

\* InsertEmbedding's encoding of a vector (line 591).
ApplyFloat32SliceToBytes ==
    /\ eval.fn = "float32SliceToBytes"
    /\ ~eval.done
    /\ eval' = [eval EXCEPT !.done = TRUE, !.ret = float32SliceToBytes(eval.arg)]
    /\ UNCHANGED <<config, serverVars, chunkVars, storeVars, ingestRet, searchVars, lastSet>>

\* SearchVectors' decoding of the bytes stored (line 712), applied to what
\* the encoding returned; arg keeps the vector that was encoded.
ApplyBytesToFloat32Slice ==
    /\ eval.fn = "float32SliceToBytes"
    /\ eval.done
    /\ eval' = [fn |-> "bytesToFloat32Slice",
                arg |-> [floats |-> eval.arg, bytes |-> eval.ret],
                done |-> TRUE, ret |-> bytesToFloat32Slice(eval.ret)]
    /\ UNCHANGED <<config, serverVars, chunkVars, storeVars, ingestRet, searchVars, lastSet>>

PureNext ==
    \/ ApplyGenerateTrigrams
    \/ ApplyCosineSimilarity
    \/ ApplyFloat32SliceToBytes
    \/ ApplyBytesToFloat32Slice

SpecPure == PureInit /\ [][PureNext]_vars

\* ----------------------------------------------------------------- server
\* Run (server.go, lines 114-148) on an input of at most MaxLines lines.
MaxLines == 2

\* A JSON id: absent, null, a string, or a number.  The number is
\* big * 2^53 + r, so that the numbers float64 cannot hold are there.
IdAbsent == [type |-> "absent"]
IdNull == [type |-> "null"]
IdString == [type |-> "string", v |-> "1"]
IdNumber(big, r) == [type |-> "number", big |-> big, r |-> r]
RequestIds == {IdAbsent, IdString, IdNumber(0, 1), IdNumber(1, 1)}

\* The float64 nearest to 2^53 + r: the float64 of that size are the even
\* integers, and a tie goes to the even mantissa.
Float64Round(r) ==
    IF r % 2 = 0 THEN r ELSE IF (r - 1) % 4 = 0 THEN r - 1 ELSE r + 1

\* Lines 138-143: json.Unmarshal of the raw id into an interface{}: nil for
\* no id and for null, a string, or a float64.
UnmarshalID(id) ==
    IF id.type \in {"absent", "null"} THEN [type |-> "nil"]
    ELSE IF id.type = "number" /\ id.big > 0
         THEN IdNumber(id.big, Float64Round(id.r))
         ELSE id

\* json.Marshal of that value, as the id of a response.
MarshalID(v) == IF v.type = "nil" THEN IdNull ELSE v

\* writeResult and writeError (server.go, lines 343-367) with writeJSON:
\* the line written, as the keys of the object and their values.
writeResult(id, result) ==
    [jsonrpc |-> "2.0", id |-> MarshalID(id),
     keys |-> {"jsonrpc", "id", "result"}, result |-> result,
     error |-> [code |-> 0, message |-> ""]]
writeError(id, code, message) ==
    [jsonrpc |-> "2.0", id |-> MarshalID(id),
     keys |-> {"jsonrpc", "id", "error"}, result |-> [kind |-> "none"],
     error |-> [code |-> code, message |-> message]]

ParseError == 0 - 32700
MethodNotFound == 0 - 32601
InvalidParams == 0 - 32602

\* What handling a request did: the lines it wrote, the tool it ran, the
\* store operations it called and the one that failed, and whether it
\* panicked.
Outcome(out, tool, queried, dbErr) ==
    [out |-> out, tool |-> tool, queried |-> queried, dbErr |-> dbErr,
     panic |-> FALSE]
Wrote(line) == Outcome(<<line>>, "none", {}, "none")

\* handleInitialize, handleToolsList, handlePing (lines 171-225, 337-339).
handleInitialize(id) ==
    {Wrote(writeResult(id, [kind |-> "initialize", protocolVersion |-> "2024-11-05",
                            name |-> "gdpr-mcp", version |-> "1.0.0"]))}
handleToolsList(id) ==
    {Wrote(writeResult(id, [kind |-> "tools", names |-> <<"gdpr_search", "gdpr_get">>]))}
handlePing(id) ==
    {Wrote(writeResult(id, [kind |-> "object"]))}

\* The calls of HybridSearch the search tool can make for a query: one for
\* each answer of the provider and each store operation that can fail.
SearchRuns(query, limit) ==
    UNION { UNION { {[h |-> h, dbErr |-> dbErr] :
                        h \in HybridSearch(query, QueryEmbedding(query, provider),
                                           limit, dbErr)} :
                    dbErr \in DbErrs(QueryEmbedding(query, provider)) } :
            provider \in ProviderAnswers }

\* handleSearchTool (lines 244-294) as the outcomes of a request.
SearchToolOutcomes(id, args) ==
    IF ~args.ok
    THEN {Outcome(<<writeResult(id, writeToolError("Invalid arguments"))>>,
                  "gdpr_search", {}, "none")}
    ELSE IF args.query = <<>>
    THEN {Outcome(<<writeResult(id, writeToolError("Query is required"))>>,
                  "gdpr_search", {}, "none")}
    ELSE {IF x.h.res.panic
          THEN [Outcome(<<>>, "gdpr_search", {"HybridSearch"}, "none")
                   EXCEPT !.panic = TRUE]
          ELSE Outcome(<<writeResult(id,
                            IF x.h.res.err THEN writeToolError("Search failed")
                            ELSE writeToolResult(Marshal(x.h.res)))>>,
                       "gdpr_search", {"HybridSearch"},
                       IF x.h.res.err THEN x.dbErr ELSE "none") :
            x \in SearchRuns(args.query,
                             IF args.limit <= 0 THEN DefaultLimit ELSE args.limit)}

\* handleGetTool without the test of lines 306-309.
GetToolOutcomesNoIdTest(id, args) ==
    IF ~args.ok
    THEN {Outcome(<<writeResult(id, writeToolError("Invalid arguments"))>>,
                  "gdpr_get", {}, "none")}
    ELSE {Outcome(<<writeResult(id,
                       IF GetDocument(args.id, dbErr).err
                       THEN writeToolError("Failed to get document")
                       ELSE IF GetDocument(args.id, dbErr).doc.nil
                       THEN writeToolError("Document not found")
                       ELSE writeToolResult([kind |-> "object", id |-> args.id]))>>,
                  "gdpr_get", {"GetDocument"}, dbErr) :
            dbErr \in {"none", "GetDocument"}}

\* handleGetTool (lines 296-335) as the outcomes of a request.
GetToolOutcomes(id, args) ==
    IF ~args.ok
    THEN {Outcome(<<writeResult(id, writeToolError("Invalid arguments"))>>,
                  "gdpr_get", {}, "none")}
    ELSE IF args.id <= 0
    THEN {Outcome(<<writeResult(id, writeToolError("Valid document ID is required"))>>,
                  "gdpr_get", {}, "none")}
    ELSE {Outcome(<<writeResult(id,
                       IF GetDocument(args.id, dbErr).err
                       THEN writeToolError("Failed to get document")
                       ELSE IF GetDocument(args.id, dbErr).doc.nil
                       THEN writeToolError("Document not found")
                       ELSE writeToolResult(
                              [kind |-> "object", id |-> args.id,
                               chunk |-> GetDocument(args.id, dbErr).doc.Chunk,
                               chunk_index |-> GetDocument(args.id, dbErr).doc.ChunkIndex]))>>,
                  "gdpr_get", {"GetDocument"}, dbErr) :
            dbErr \in {"none", "GetDocument"}}

\* handleToolsCall with the search tool as the default of the switch.
handleToolsCallDefaultsToSearch(id, params) ==
    IF ~params.ok THEN {Wrote(writeError(id, InvalidParams, "Invalid params"))}
    ELSE IF params.name = "gdpr_get" THEN GetToolOutcomes(id, params.arguments)
    ELSE SearchToolOutcomes(id, params.arguments)

\* handleToolsCall (lines 227-242).
handleToolsCall(id, params) ==
    IF ~params.ok THEN {Wrote(writeError(id, InvalidParams, "Invalid params"))}
    ELSE IF params.name = "gdpr_search" THEN SearchToolOutcomes(id, params.arguments)
    ELSE IF params.name = "gdpr_get" THEN GetToolOutcomes(id, params.arguments)
    ELSE {Wrote(writeError(id, InvalidParams, "Unknown tool"))}

\* handleRequest refusing every request that comes before an initialize.
DispatchAfterInitialize(method, id, params) ==
    IF /\ method # "initialize"
       /\ \A i \in 1..Len(handled) :
             handled[i].what = "dispatched" => handled[i].line.method # "initialize"
    THEN {Wrote(writeError(id, 0 - 32002, "Server not initialized"))}
    ELSE CASE method = "initialize" -> handleInitialize(id)
           [] method \in {"initialized", "notifications/initialized"} ->
                 {Outcome(<<>>, "none", {}, "none")}
           [] method = "tools/list" -> handleToolsList(id)
           [] method = "tools/call" -> handleToolsCall(id, params)
           [] method = "ping" -> handlePing(id)
           [] OTHER -> {Wrote(writeError(id, MethodNotFound, "Method not found"))}

\* handleRequest answering the two notifications as it answers ping.
DispatchAnswersAll(method, id, params) ==
    CASE method = "initialize" -> handleInitialize(id)
      [] method \in {"initialized", "notifications/initialized", "ping"} ->
            handlePing(id)
      [] method = "tools/list" -> handleToolsList(id)
      [] method = "tools/call" -> handleToolsCall(id, params)
      [] OTHER -> {Wrote(writeError(id, MethodNotFound, "Method not found"))}

\* handleRequest (lines 150-169) as the outcomes of a request.
Dispatch(method, id, params) ==
    CASE method = "initialize" -> handleInitialize(id)
      [] method \in {"initialized", "notifications/initialized"} ->
            {Outcome(<<>>, "none", {}, "none")}
      [] method = "tools/list" -> handleToolsList(id)
      [] method = "tools/call" -> handleToolsCall(id, params)
      [] method = "ping" -> handlePing(id)
      [] OTHER -> {Wrote(writeError(id, MethodNotFound, "Method not found"))}

\* The lines of the input.  kind: "empty" is the line of a newline only,
\* "garbage" a line that is not JSON, "request" a JSON object.  nl tells
\* whether the line ends with a newline: only the last line may not.
NoParams == [ok |-> FALSE]
Methods ==
    {"initialize", "initialized", "notifications/initialized", "tools/list",
     "ping", "resources/list"}
ServerSearchArgs ==
    {a \in SearchArgs :
        \/ ~a.ok
        \/ a.query = <<>> /\ a.limit = 0
        \/ a.query = <<"a", "B", "c", "d">> /\ a.limit \in {0, 1}
        \/ a.query = <<" ", "a", "b">> /\ a.limit = 1}
ToolParams ==
    {NoParams}
    \cup [ok : {TRUE}, name : {"delete_all"}, arguments : {[ok |-> FALSE]}]
    \cup [ok : {TRUE}, name : {"gdpr_search"}, arguments : ServerSearchArgs]
    \cup [ok : {TRUE}, name : {"gdpr_get"}, arguments : GetArgs]
Requests ==
    [kind : {"request"}, id : RequestIds, method : Methods, params : {NoParams}]
    \cup [kind : {"request"}, id : {IdNumber(0, 1)}, method : {"tools/call"},
          params : ToolParams]
Line(r, nl) == [kind |-> r.kind, id |-> r.id, method |-> r.method,
                params |-> r.params, nl |-> nl]
Lines(nl) ==
    {Line(r, nl) : r \in Requests}
    \cup (IF nl THEN {[kind |-> "empty", nl |-> TRUE]} ELSE {})
    \cup {[kind |-> "garbage", nl |-> nl]}
Inputs ==
    UNION {{s \in [1..n -> Lines(TRUE) \cup Lines(FALSE)] :
               \A i \in 1..n : i < n => s[i].nl} : n \in 0..MaxLines}

\* The store that holds the chunks cs with their trigrams, the vectors vs
\* and the metadata of one IngestText call.
StoreIs(cs, vs) ==
    /\ documents = [k \in 1..Len(cs) |-> [chunk |-> cs[k], chunk_index |-> k - 1]]
    /\ trigrams = TrigramRowsOf(EmptyBag, cs, 0, Len(cs))
    /\ embeddings = vs
    /\ metadata = [k \in {"ingested_at", "chunk_count"} |->
                     IF k = "ingested_at" THEN "now" ELSE ToString(Len(cs))]
ServerStores ==
    { [cs |-> <<>>, vs |-> <<>>],
      [cs |-> << <<"a", "b", "c", "d">>, <<"A", "b", "c">> >>,
       vs |-> << <<2, 1>>, <<1, 0, 0>> >>] }

ServerInit ==
    /\ config \in ServerConfigs
    /\ \E s \in ServerStores : StoreIs(s.cs, s.vs)
    /\ ChunkIdle
    /\ IngestIdle
    /\ SearchIdle
    /\ EvalIdle
    /\ stdin \in Inputs
    /\ stdout = <<>>
    /\ req = NoRequest
    /\ handled = <<>>
    /\ spc = "read"

\* What was done with a line: what is "skipped", "parse error", "dropped" or
\* "dispatched"; from is the number of lines written before.
Entry(line, what, o) ==
    [line |-> line, what |-> what, from |-> Len(stdout), out |-> Len(o.out),
     tool |-> o.tool, queried |-> o.queried, dbErr |-> o.dbErr]

\* Lines 118-135: ReadBytes and what follows it up to the dispatch.  At the
\* end of the input ReadBytes returns io.EOF, together with the bytes of a
\* last line that has no newline, and Run returns.
ReadBytes ==
    /\ spc = "read"
    /\ IF stdin = <<>>
       THEN /\ spc' = "returned"
            /\ UNCHANGED <<stdin, stdout, req, handled>>
       ELSE /\ stdin' = Tail(stdin)
            /\ IF ~Head(stdin).nl
               THEN /\ spc' = "returned"
                    /\ handled' = Append(handled,
                          Entry(Head(stdin), "dropped", Outcome(<<>>, "none", {}, "none")))
                    /\ UNCHANGED <<stdout, req>>
               ELSE IF Head(stdin).kind = "empty"
               THEN /\ spc' = "read"
                    /\ handled' = Append(handled,
                          Entry(Head(stdin), "skipped", Outcome(<<>>, "none", {}, "none")))
                    /\ UNCHANGED <<stdout, req>>
               ELSE IF Head(stdin).kind = "garbage"
               THEN /\ spc' = "read"
                    /\ stdout' = Append(stdout,
                          writeError([type |-> "nil"], ParseError, "Parse error"))
                    /\ handled' = Append(handled,
                          Entry(Head(stdin), "parse error",
                                Wrote(writeError([type |-> "nil"], ParseError, "Parse error"))))
                    /\ UNCHANGED req
               ELSE /\ spc' = "handle"
                    /\ req' = Head(stdin)
                    /\ UNCHANGED <<stdout, handled>>
    /\ UNCHANGED <<config, chunkVars, storeVars, ingestRet, searchVars, eval, lastSet>>

\* Lines 119-124: ReadBytes fails with an error that is not io.EOF.
ReadFails ==
    /\ spc = "read"
    /\ spc' = "failed"
    /\ UNCHANGED <<config, chunkVars, storeVars, ingestRet, searchVars, eval, lastSet,
                   stdin, stdout, req, handled>>

\* Lines 137-146: the id is decoded and the request dispatched; the handler
\* returns (or panics) before Run reads again.
handleRequest ==
    /\ spc = "handle"
    /\ \E o \in Dispatch(req.method, UnmarshalID(req.id), req.params) :
          /\ stdout' = stdout \o o.out
          /\ handled' = Append(handled, Entry(req, "dispatched", o))
          /\ spc' = IF o.panic THEN "panicked" ELSE "read"
    /\ req' = NoRequest
    /\ UNCHANGED <<config, chunkVars, storeVars, ingestRet, searchVars, eval, lastSet,
                   stdin>>

ServerNext ==
    \/ ReadBytes
    \/ ReadFails
    \/ handleRequest

SpecServer == ServerInit /\ [][ServerNext]_vars

\* ------------------------------------------------------- chunker: claims
HasText(t) == \E i \in 1..Len(t) : ~IsSpace(t[i])

\* C1: with size > overlap >= 0 every window of chunkText starts strictly
\* after the previous window's start until a window reaches the end of the
\* text, so the loop ends after finitely many chunks.
C1_ForwardProgress ==
    [][(/\ config.ChunkSize > config.ChunkOverlap
        /\ cpc = "loop"
        /\ cpc' = "loop") => start' > start]_vars

\* C8 as claimed: for every non-empty input text chunkText returns a
\* non-empty sequence of chunks, none of which is the empty string.
C8_NonEmptyInputGivesChunks ==
    (cpc = "done" /\ text # <<>>) =>
        /\ chunks # <<>>
        /\ \A k \in 1..Len(chunks) : chunks[k] # <<>>

\* C8 as amended: for every input text that holds a character other than
\* white space, the sequence chunkText returns is not empty, and no chunk
\* of any returned sequence is the empty string.
C8_TextGivesChunks ==
    cpc = "done" =>
        /\ HasText(text) => chunks # <<>>
        /\ \A k \in 1..Len(chunks) : chunks[k] # <<>>

C8_Witness ==
    /\ cpc = "done"
    /\ HasText(text)
    /\ Len(chunks) >= 2
    /\ \E w \in 1..Len(windows) : windows[w].chunk = 0

\* The place of window w's chunk in the normalised text: the window without
\* its leading and trailing white space.
ChunkExtent(w) ==
    LET c == chunks[w.chunk]
    IN  {lead \in 0..(w.end - w.start) :
            /\ w.start + lead + Len(c) <= w.end
            /\ SubSeq(runes, w.start + lead + 1, w.start + lead + Len(c)) = c}

\* C9: chunkText loses no content: consecutive windows leave no gap, every
\* position of the normalised, trimmed text lies in a window that was cut,
\* and every character that is not white space lies in the chunk of such a
\* window.
C9_NoContentLost ==
    /\ \A k \in 1..(Len(windows) - 1) : windows[k + 1].start <= windows[k].end
    /\ cpc = "done" =>
         \A p \in 1..Len(runes) :
            /\ \E k \in 1..Len(windows) :
                  windows[k].start < p /\ p <= windows[k].end
            /\ ~IsSpace(runes[p]) =>
                  \E k \in 1..Len(windows) :
                     /\ windows[k].chunk # 0
                     /\ \E lead \in ChunkExtent(windows[k]) :
                           /\ windows[k].start + lead < p
                           /\ p <= windows[k].start + lead
                                     + Len(chunks[windows[k].chunk])

C9_Witness ==
    /\ cpc = "done"
    /\ config.ChunkSize > config.ChunkOverlap
    /\ config.ChunkOverlap > 0
    /\ Len(windows) >= 3
    /\ \E k \in 1..Len(windows) : windows[k].end - windows[k].start < config.ChunkSize
    /\ \E p \in 1..Len(runes) : IsSpace(runes[p])

\* C10: a configuration with overlap >= size is rejected before any chunk
\* is produced.
C10_DegenerateConfigRejected ==
    config.ChunkOverlap >= config.ChunkSize => chunks = <<>>


\* ------------------------------------------------------ ingestion: claims
\* The trigrams posted for document d.
PostingsOf(d) == {r[1] : r \in {x \in BagToSet(trigrams) : x[2] = d}}

\* C2: after IngestText returns, with success or with an error, every
\* passage row that call stored has its trigram postings and its embedding
\* in the store.
C2_NoPartialPassage ==
    ingestRet.status # "none" =>
        \A k \in 1..ingestRet.stored :
            /\ ingestRet.first + k \in DOMAIN embeddings
            /\ PostingsOf(ingestRet.first + k)
                  = Range(GenerateTrigrams(ingestRet.chunks[k]))

\* C11: after any sequence of ingestions, also ones in which the embedding
\* provider fails for some chunks and answers for others, all the vectors in
\* the store have the same dimension.
C11_OneDimension ==
    \A d1, d2 \in DOMAIN embeddings : Len(embeddings[d1]) = Len(embeddings[d2])

\* --------------------------------------------------------- search: claims
\* The score of document d for the set Q of the query's trigrams.
LexicalScore(d, Q) == <<Cardinality(Q \cap PostingsOf(d)), Cardinality(Q)>>

\* C6: SearchTrigrams(query, limit) with limit >= 1 returns only passages with
\* a posting among the query's trigrams Q, each with score (distinct trigrams
\* of Q posted for the passage) / |Q|, so 0 < score <= 1 whatever the
\* duplicate postings, in non-increasing score order, at most limit of them,
\* and no omitted passage scores higher than a returned one.
C6_LexicalScoring ==
    (call.op = "SearchTrigrams" /\ call.limit >= 1) =>
        LET Q == Range(GenerateTrigrams(call.query))
            l == trigramResults.list
            returned == {l[i].ID : i \in 1..Len(l)}
        IN  /\ Len(l) <= call.limit
            /\ \A i \in 1..Len(l) :
                  /\ l[i].ID \in 1..Len(documents)
                  /\ Q \cap PostingsOf(l[i].ID) # {}
                  /\ l[i].Score = LexicalScore(l[i].ID, Q)
                  /\ l[i].Score[1] > 0
                  /\ l[i].Score[1] <= l[i].Score[2]
            /\ \A i \in 1..(Len(l) - 1) : ~FracGreater(l[i + 1].Score, l[i].Score)
            /\ \A d \in 1..Len(documents) :
                  (d \notin returned /\ Q \cap PostingsOf(d) # {}) =>
                      \A i \in 1..Len(l) : ~FracGreater(LexicalScore(d, Q), l[i].Score)

\* A search cut to one result whose passage has every query trigram posted
\* twice, while a passage that matches half of the query is left out.
C6_Witness ==
    /\ call.op = "SearchTrigrams"
    /\ call.limit = 1
    /\ Len(trigramResults.list) = 1
    /\ trigramResults.list[1].Score = <<2, 2>>
    /\ CopiesIn(<<<<"a", "b", "c">>, trigramResults.list[1].ID>>, trigrams) = 2
    /\ \E d \in 1..Len(documents) :
          /\ d # trigramResults.list[1].ID
          /\ PostingsOf(d) = {<<"a", "b", "c">>}

\* C7: for the same store, query and limit SearchTrigrams returns the same
\* sequence of results on every run.
C7_Reproducible ==
    rerun.done /\ call.op = "SearchTrigrams" => rerun.ret = trigramResults

\* Equal fractions.
FracEq(x, y) == x[1] * y[2] = y[1] * x[2]

\* The term a list gives to the score of id: 1/(60 + rank), or 0.
RankTerm(list, id) ==
    IF \E i \in 1..Len(list) : list[i].ID = id
    THEN <<1, RRFK + (CHOOSE i \in 1..Len(list) : list[i].ID = id)>>
    ELSE <<0, 1>>

\* C3: with a query vector HybridSearch returns each passage id of the
\* lexical or the vector candidate list at most once, with score the sum over
\* the two lists of 1/(60 + 1-based rank in the list), 0 from a list without
\* it; the results are in non-increasing score order, at most limit of them.
C3_ReciprocalRankFusion ==
    (/\ call.op = "HybridSearch"
     /\ call.queryEmbedding.some
     /\ call.limit >= 1
     /\ ~results.err) =>
        LET l   == results.list
            tri == trigramResults.list
            vec == vectorResults.list
        IN  /\ Len(l) <= call.limit
            /\ \A i, j \in 1..Len(l) : i # j => l[i].ID # l[j].ID
            /\ \A i \in 1..Len(l) :
                  /\ \/ \E j \in 1..Len(tri) : tri[j].ID = l[i].ID
                     \/ \E j \in 1..Len(vec) : vec[j].ID = l[i].ID
                  /\ FracEq(l[i].Score,
                            FracAdd(RankTerm(tri, l[i].ID), RankTerm(vec, l[i].ID)))
            /\ \A i \in 1..(Len(l) - 1) : ~FracGreater(l[i + 1].Score, l[i].Score)

\* A fused search that returns two passages: the first in both lists, at
\* different ranks, the second in the vector list only.
C3_Witness ==
    /\ call.op = "HybridSearch"
    /\ call.queryEmbedding.some
    /\ ~results.err
    /\ Len(results.list) = 2
    /\ Len(trigramResults.list) = 1
    /\ Len(vectorResults.list) = 2
    /\ trigramResults.list[1].ID = vectorResults.list[2].ID
    /\ results.list[1].ID = trigramResults.list[1].ID
    /\ FracGreater(results.list[1].Score, results.list[2].Score)

\* C4: HybridSearch without a query vector returns the ranking of
\* SearchTrigrams for the query, scores and order unchanged, cut to limit, and
\* fails only if the lexical search itself fails.
C4_NoVectorIsLexicalOnly ==
    (/\ call.op = "HybridSearch"
     /\ ~call.queryEmbedding.some
     /\ call.limit >= 1
     /\ call.dbErr = "none") =>
        /\ ~results.err
        /\ ~results.panic
        /\ results.list = Prefix(trigramResults.list, call.limit)
        /\ [nil |-> results.nil, list |-> results.list]
              \in SearchTrigrams(call.query, call.limit)
        /\ vectorResults = NilResults

\* A search without a query vector whose lexical list is longer than limit.
C4_Witness ==
    /\ call.op = "HybridSearch"
    /\ ~call.queryEmbedding.some
    /\ ~results.err
    /\ Len(trigramResults.list) > call.limit
    /\ Len(results.list) = call.limit
    /\ embeddings # <<>>

\* C5: when the embedding provider fails in a gdpr_search request, the search
\* runs without the vector search and a response is written; unless the
\* lexical search itself fails, the response is no error and carries the
\* lexical ranking, cut to limit.
C5_ProviderFailureFallsBack ==
    (call.op = "HybridSearch" /\ call.embedErr) =>
        /\ response.written
        /\ vectorResults = NilResults
        /\ call.dbErr = "none" =>
              /\ ~response.isError
              /\ response.text = Marshal(Truncate(trigramResults, call.limit))

\* The provider failed, the store holds vectors, and the response lists a
\* passage.
C5_Witness ==
    /\ call.op = "HybridSearch"
    /\ call.embedErr
    /\ response.written
    /\ ~response.isError
    /\ response.text.kind = "array"
    /\ Len(response.text.items) = 2
    /\ DOMAIN embeddings = {1, 2}

\* C12: a search with limit <= 0, or a gdpr_search request without limit,
\* returns what the same search returns with limit = 10: no error of its
\* own, no crash, no unbounded list.
C12_NonPositiveLimitIsTen ==
    (call.op = "HybridSearch" /\ call.asked <= 0) =>
        /\ ~results.panic
        /\ results \in {h.res : h \in HybridSearch(call.query, call.queryEmbedding,
                                                  DefaultLimit, call.dbErr)}

\* C13: a passage that is first in the lexical and in the vector candidate
\* list is the first result of HybridSearch, with a score strictly above the
\* score of every other result.
C13_FirstInBothIsFirst ==
    (/\ call.op = "HybridSearch"
     /\ call.queryEmbedding.some
     /\ call.limit >= 1
     /\ ~results.err
     /\ Len(trigramResults.list) >= 1
     /\ Len(vectorResults.list) >= 1
     /\ trigramResults.list[1].ID = vectorResults.list[1].ID) =>
        LET l == results.list
        IN  /\ Len(l) >= 1
            /\ l[1].ID = trigramResults.list[1].ID
            /\ \A i \in 2..Len(l) :
                  l[1].Score[1] * l[i].Score[2] > l[i].Score[1] * l[1].Score[2]

\* The first of both lists is returned ahead of a passage that both lists
\* hold in second place.
C13_Witness ==
    /\ call.op = "HybridSearch"
    /\ call.queryEmbedding.some
    /\ ~results.err
    /\ Len(trigramResults.list) = 2
    /\ Len(vectorResults.list) = 2
    /\ trigramResults.list[1].ID = vectorResults.list[1].ID
    /\ Len(results.list) = 2
    /\ results.list[2].ID = trigramResults.list[2].ID

\* C15: SearchTrigrams with a query of fewer than three characters after
\* trimming, which has no trigram, returns an empty result set and no error,
\* whatever the store holds and whether or not the database would fail.
C15_NoTrigramsIsEmptyNotError ==
    (call.op = "SearchTrigrams" /\ Len(TrimSpace(ToLower(call.query))) < 3) =>
        /\ ~results.err
        /\ ~results.panic
        /\ results.list = <<>>
        /\ trigramResults.list = <<>>

\* The query " ab" on a store of two passages with their trigrams, the
\* database failing every statement it is sent.
C15_Witness ==
    /\ call.op = "SearchTrigrams"
    /\ call.query = <<" ", "a", "b">>
    /\ call.dbErr = "SearchTrigrams"
    /\ Len(documents) = 2
    /\ trigrams # EmptyBag
    /\ ~results.err
    /\ results.list = <<>>

\* The ids that no stored passage has.
Missing(id) == id \notin 1..Len(documents)

\* C16: looking up an id that no stored passage has, the database answering
\* its query: GetDocument returns no document and a nil error, and a
\* gdpr_get request for the id is answered with the tool error "Document not
\* found", after which the server takes the next request.
C16_MissingIdIsNotFound ==
    /\ (call.op = "GetDocument" /\ call.dbErr = "none" /\ Missing(eval.arg)) =>
            eval.ret = [doc |-> NoDocument, err |-> FALSE]
    /\ (call.op = "gdpr_get" /\ call.dbErr = "none" /\ eval.arg.ok /\ Missing(eval.arg.id)) =>
            /\ response = writeToolError("Document not found")
            /\ ENABLED NextRequest

\* C16, amended: the same, but the request for an id of zero or less, which
\* no passage has either, is answered with the tool error "Valid document ID
\* is required".
C16_MissingIdIsToolError ==
    /\ (call.op = "GetDocument" /\ call.dbErr = "none" /\ Missing(eval.arg)) =>
            eval.ret = [doc |-> NoDocument, err |-> FALSE]
    /\ (call.op = "gdpr_get" /\ call.dbErr = "none" /\ eval.arg.ok /\ Missing(eval.arg.id)) =>
            /\ response = IF eval.arg.id <= 0
                          THEN writeToolError("Valid document ID is required")
                          ELSE writeToolError("Document not found")
            /\ ENABLED NextRequest

\* A request for the id after the last one of a store that holds passages.
C16_Witness ==
    /\ call.op = "gdpr_get"
    /\ call.dbErr = "none"
    /\ Len(documents) >= 1
    /\ eval.arg.ok
    /\ eval.arg.id = Len(documents) + 1
    /\ eval.ret = [doc |-> NoDocument, err |-> FALSE]
    /\ response.isError
    /\ response.text.message = "Document not found"

\* C18: after any sequence of IngestText calls on one store that all
\* succeeded, the metadata value chunk_count is the number of passages the
\* store holds.
C18_ChunkCountIsPassageCount ==
    (ingestRet.status = "ok" /\ ~ingestRet.failed) =>
        /\ "chunk_count" \in DOMAIN metadata
        /\ metadata["chunk_count"] = ToString(Len(documents))

\* ------------------------------------------ claims about the chunker, II
\* C19: chunkText applied to a text whose trimmed length is smaller than
\* ChunkSize returns exactly one chunk, the trimmed input; applied to the
\* empty text it returns the empty sequence.
C19_ShortTextIsOneChunk ==
    cpc = "done" =>
        /\ (text # <<>> /\ Len(TrimSpace(text)) < config.ChunkSize) =>
                chunks = <<TrimSpace(text)>>
        /\ text = <<>> => chunks = <<>>

\* C19 as amended: a text that holds a character other than white space and
\* whose trimmed length is smaller than ChunkSize gives exactly one chunk,
\* the trimmed input with every CRLF replaced by LF; the empty text and a
\* text of white space only give the empty sequence.
C19_ShortTextIsOneNormalisedChunk ==
    cpc = "done" =>
        /\ (HasText(text) /\ Len(TrimSpace(text)) < config.ChunkSize) =>
                chunks = <<ReplaceCRLF(TrimSpace(text))>>
        /\ ~HasText(text) => chunks = <<>>

\* " a CRLF a" with ChunkSize 5: the one chunk is "a LF a".
C19_Witness ==
    /\ cpc = "done"
    /\ text = <<" ", "a", "\r", "\n", "a">>
    /\ config.ChunkSize = 5
    /\ chunks = << <<"a", "\n", "a">> >>

\* ------------------------------------------------- claims about metadata
\* C17: after any sequence of SetMetadata calls the store holds, for each
\* key, the value of the last SetMetadata of that key and nothing for a key
\* never set (so a SetMetadata of one key changed no other key); and a
\* GetMetadata the database answers returns that value, or the empty string
\* for a key never set, and no error.
C17_LastWriteWins ==
    /\ DOMAIN metadata = DOMAIN lastSet
    /\ \A k \in DOMAIN lastSet : metadata[k] = lastSet[k]
    /\ (eval.fn = "GetMetadata" /\ ~eval.arg.dbErr) =>
            /\ ~eval.ret.err
            /\ eval.ret.value = IF eval.arg.key \in DOMAIN lastSet
                                THEN lastSet[eval.arg.key] ELSE ""

\* chunk_count, last set to "2" next to another key, is read back as "2".
C17_Witness ==
    /\ eval.fn = "GetMetadata"
    /\ eval.arg = [key |-> "chunk_count", dbErr |-> FALSE]
    /\ eval.ret = [value |-> "2", err |-> FALSE]
    /\ lastSet = [k \in {"chunk_count", "version"} |->
                    IF k = "version" THEN "1" ELSE "2"]

\* ------------------------------------------------ claims about functions
\* The squared norm of a vector is zero.
ZeroNorm(v) == \A i \in 1..Len(v) : v[i] = 0

\* C20: cosineSimilarity(a, b) is exactly 0 when a or b is empty, when a and
\* b differ in length, and when a or b has zero norm, and in none of these
\* cases is anything divided by zero.
C20_DegenerateCosineIsZero ==
    (/\ eval.fn = "cosineSimilarity"
     /\ eval.done
     /\ \/ Len(eval.arg[1]) = 0
        \/ Len(eval.arg[2]) = 0
        \/ Len(eval.arg[1]) # Len(eval.arg[2])
        \/ ZeroNorm(eval.arg[1])
        \/ ZeroNorm(eval.arg[2])) =>
        /\ eval.ret.d = 0
        /\ eval.ret.n > 0
        /\ eval.ret.m > 0

\* A vector of zero norm against one of the same length that has a norm.
C20_Witness ==
    /\ eval.fn = "cosineSimilarity"
    /\ eval.done
    /\ eval.arg = << <<0, 0>>, <<1, 0 - 1>> >>
    /\ eval.ret.d = 0

\* C14: GenerateTrigrams(s) has no entry twice, every entry is three code
\* points long and is a run of consecutive code points of the lower-cased,
\* trimmed s, and the result is empty exactly when the lower-cased, trimmed s
\* has fewer than three code points, a character of several bytes counting
\* as one.
C14_TrigramsWellFormed ==
    (eval.fn = "GenerateTrigrams" /\ eval.done) =>
        LET t == TrimSpace(ToLower(eval.arg))
            r == eval.ret
        IN  /\ \A i, j \in 1..Len(r) : i # j => r[i] # r[j]
            /\ \A i \in 1..Len(r) :
                  /\ Len(r[i]) = 3
                  /\ \E k \in 1..(Len(t) - 2) : r[i] = SubSeq(t, k, k + 2)
            /\ (r = <<>>) <=> (Len(t) < 3)

\* A text with an accented capital and a repeated trigram: the trigrams
\* a-e-a and e-a-e, the e accented, once each.
C14_Witness ==
    /\ eval.fn = "GenerateTrigrams"
    /\ eval.done
    /\ eval.arg = <<"a", "U+00C9", "a", "U+00E9", "a">>
    /\ eval.ret = << <<"a", "U+00E9", "a">>, <<"U+00E9", "a", "U+00E9">> >>

\* C21: for every sequence v of 32-bit float values,
\* bytesToFloat32Slice(float32SliceToBytes(v)) has the length of v and, at
\* every index, the bit pattern v has there; the bytes are four per value.
C21_SerializationRoundTrips ==
    (eval.fn = "bytesToFloat32Slice" /\ eval.done) =>
        /\ Len(eval.arg.bytes) = 4 * Len(eval.arg.floats)
        /\ \A i \in 1..Len(eval.arg.bytes) : eval.arg.bytes[i] \in 0..(Byte - 1)
        /\ Len(eval.ret) = Len(eval.arg.floats)
        /\ \A i \in 1..Len(eval.ret) : eval.ret[i] = eval.arg.floats[i]

\* -2.3 and a NaN with a payload, whose four bytes all differ.
C21_Witness ==
    /\ eval.fn = "bytesToFloat32Slice"
    /\ eval.done
    /\ eval.arg.floats = << <<49171, 13107>>, <<32704, 258>> >>
    /\ eval.arg.bytes = <<51, 51, 19, 192, 2, 1, 192, 127>>
    /\ eval.ret = eval.arg.floats

\* ------------------------------------------------ claims about the server
\* The id a response to the line has to carry: the id sent, null when none
\* was sent.
SentId(line) ==
    IF line.kind # "request" \/ line.id.type = "absent" THEN IdNull ELSE line.id

\* The line written for the entry e of handled, which wrote one.
Answer(e) == stdout[e.from + 1]

\* C22: every line the server writes is a JSON-RPC 2.0 response to the
\* request being handled: jsonrpc is "2.0", the id is the request's id,
\* type and value, and exactly one of result and error is there.
C22_ResponsesWellFormed ==
    \A i \in 1..Len(handled) :
        handled[i].out = 1 =>
            /\ Answer(handled[i]).jsonrpc = "2.0"
            /\ Answer(handled[i]).id = SentId(handled[i].line)
            /\ Cardinality(Answer(handled[i]).keys \cap {"result", "error"}) = 1

\* The input as it was at the start: the lines taken, the request read and
\* not yet dispatched, the lines still to come.
InputOf ==
    [i \in 1..Len(handled) |-> handled[i].line]
    \o (IF spc = "handle" THEN <<req>> ELSE <<>>) \o stdin

Notifications == {"initialized", "notifications/initialized"}

\* Every request dispatched so far wrote no line if it is a notification and
\* one line if not, right after the lines of the requests before it, and
\* nothing else was written.
AnsweredInOrder ==
    /\ \A i \in 1..Len(handled) :
          /\ handled[i].what = "dispatched" =>
                handled[i].out = IF handled[i].line.method \in Notifications THEN 0 ELSE 1
          /\ handled[i].from = IF i = 1 THEN 0 ELSE handled[i - 1].from + handled[i - 1].out
    /\ Len(stdout) = IF handled = <<>> THEN 0
                     ELSE handled[Len(handled)].from + handled[Len(handled)].out

InputError(line) ==
    \/ ~line.params.arguments.ok
    \/ line.params.name = "gdpr_search" /\ line.params.arguments.query = <<>>
    \/ line.params.name = "gdpr_get" /\ line.params.arguments.id <= 0

\* C24: a call of a known tool whose arguments are in error, or in which a
\* store operation fails, is answered with one response that has a result,
\* no error, and isError = true in the result; and for arguments in error no
\* store operation is called.
C24_ToolFailureIsToolResult ==
    \A i \in 1..Len(handled) :
        (handled[i].what = "dispatched" /\ handled[i].tool # "none") =>
            /\ (InputError(handled[i].line) \/ handled[i].dbErr # "none") =>
                    /\ handled[i].out = 1
                    /\ "result" \in Answer(handled[i]).keys
                    /\ "error" \notin Answer(handled[i]).keys
                    /\ Answer(handled[i]).result.isError
            /\ InputError(handled[i].line) => handled[i].queried = {}

\* A gdpr_get without usable id, then a gdpr_search whose vector search
\* fails in the store: two tool results with isError = true.
C24_Witness ==
    /\ Len(handled) = 2
    /\ handled[1].tool = "gdpr_get"
    /\ handled[1].line.params.arguments = [ok |-> TRUE, id |-> 0]
    /\ handled[1].queried = {}
    /\ handled[2].tool = "gdpr_search"
    /\ handled[2].dbErr = "SearchVectors"
    /\ Len(stdout) = 2
    /\ stdout[1].result.isError
    /\ stdout[2].result.isError

\* The line is a request whose method handleRequest does not know.
UnknownMethod(line) ==
    line.method \notin {"initialize", "initialized", "notifications/initialized",
                        "tools/list", "tools/call", "ping"}

\* The line is a tools/call whose params do not decode or name no tool of
\* the server.
UnknownTool(line) ==
    /\ line.method = "tools/call"
    /\ (line.params.ok => line.params.name \notin {"gdpr_search", "gdpr_get"})

\* C25: a request of an unknown method is answered with the JSON-RPC error
\* -32601, a tools/call with undecodable params or an unknown tool with the
\* JSON-RPC error -32602; in both cases there is no result and no tool runs.
C25_UnknownIsJsonRpcError ==
    \A i \in 1..Len(handled) :
        (/\ handled[i].what = "dispatched"
         /\ UnknownMethod(handled[i].line) \/ UnknownTool(handled[i].line)) =>
            /\ handled[i].out = 1
            /\ Answer(handled[i]).keys = {"jsonrpc", "id", "error"}
            /\ Answer(handled[i]).error.code =
                  IF UnknownMethod(handled[i].line) THEN 0 - 32601 ELSE 0 - 32602
            /\ handled[i].tool = "none"
            /\ handled[i].queried = {}

\* An unknown method, then a call of an unknown tool.
C25_Witness ==
    /\ Len(handled) = 2
    /\ handled[1].line.kind = "request"
    /\ handled[1].line.method = "resources/list"
    /\ handled[2].line.kind = "request"
    /\ handled[2].line.method = "tools/call"
    /\ handled[2].line.params.ok
    /\ handled[2].line.params.name = "delete_all"
    /\ Len(stdout) = 2
    /\ stdout[1].error.code = 0 - 32601
    /\ stdout[2].error.code = 0 - 32602

\* C28: when Run has returned at the end of the input, every line of the
\* input that is not empty was handled, the last line without a newline
\* included: each request was dispatched, each line that is not JSON
\* answered with a parse error.
C28_EveryLineHandled ==
    spc = "returned" =>
        /\ stdin = <<>>
        /\ \A i \in 1..Len(handled) :
              /\ handled[i].line.kind = "request" => handled[i].what = "dispatched"
              /\ handled[i].line.kind = "garbage" => handled[i].what = "parse error"

\* What the entry e of handled wrote is what its request gets from the
\* store as it is now, whatever was handled before.
FromRequestAndStore(e) ==
    \E o \in Dispatch(e.line.method, UnmarshalID(e.line.id), e.line.params) :
        /\ Len(o.out) = e.out
        /\ e.out = 1 => o.out[1] = Answer(e)

\* C30: no step of the server changes the passages, the trigram postings,
\* the embeddings or the metadata, and the response to every request handled
\* so far is one the request gets from the store alone, whichever requests
\* came before it.
C30_ServingLeavesStore ==
    /\ [](\A i \in 1..Len(handled) :
            handled[i].what = "dispatched" => FromRequestAndStore(handled[i]))
    /\ [][storeVars' = storeVars]_vars

\* A search of the store that holds passages, answered with results before
\* any initialize, and then an initialize.
C30_Witness ==
    /\ Len(handled) = 2
    /\ Len(documents) = 2
    /\ handled[1].tool = "gdpr_search"
    /\ handled[1].queried = {"HybridSearch"}
    /\ handled[1].out = 1
    /\ ~stdout[1].result.isError
    /\ stdout[1].result.text.kind = "array"
    /\ handled[2].line.kind = "request"
    /\ handled[2].line.method = "initialize"
    /\ Len(stdout) = 2

\* ------------------------------------------- claims about the chunker, III
\* The window did not reach the end of the text: its raw end start + size
\* lies before the end.
EndsBeforeText(w) == w.start + config.ChunkSize < Len(runes)

\* The positions (counted from 0) the two searches of a window visit: from
\* the raw boundary back to the position after the midpoint.
BackHalf(w) ==
    (w.start + (config.ChunkSize \div 2) + 1)..(w.start + config.ChunkSize)

TerminatorsIn(w) == {i \in BackHalf(w) : runes[i + 1] \in {".", "\n"}}

SpacesIn(w) == {i \in BackHalf(w) : runes[i + 1] = " "}

\* The cut the boundary priority asks for: after the last terminator, else
\* at the last space, else at the raw boundary.
PriorityCut(w) ==
    IF TerminatorsIn(w) # {} THEN SetMax(TerminatorsIn(w)) + 1
    ELSE IF SpacesIn(w) # {} THEN SetMax(SpacesIn(w))
    ELSE w.start + config.ChunkSize

\* C26: a window that would end before the end of the text is cut by the
\* boundary priority: just after the terminator ('.' or newline) nearest the
\* raw boundary if one lies between the midpoint and the raw boundary, at
\* the nearest space in that range only when there is no such terminator,
\* and at the raw boundary start + size when there is neither.
C26_BoundaryPriority ==
    \A k \in 1..Len(windows) :
       EndsBeforeText(windows[k]) => windows[k].end = PriorityCut(windows[k])

\* C27: every chunk chunkText returns has at most size code points.
C27_ChunkAtMostSize ==
    \A k \in 1..Len(chunks) : Len(chunks[k]) <= config.ChunkSize

\* ------------------------------------------------- claims about search, II
\* The passage ids of a list of results, in order.
IdsOf(list) == [i \in 1..Len(list) |-> list[i].ID]

\* C29: HybridSearch is deterministic: two calls with the same store, query,
\* query vector and limit return the same sequence of passage ids, also among
\* passages of equal fused score and when such a tie straddles the cut at
\* limit.
C29_HybridDeterministic ==
    rerun.done /\ call.op = "HybridSearch" =>
       IdsOf(rerun.ret.list) = IdsOf(results.list)

====
